---------------------------- MODULE Spec2Model ----------------------------
(***************************************************************************)
(* MahaVastu zonal strength report (main.py): one straight-line script.    *)
(* It reads 16 zone values (typed in, or from an Excel table), computes     *)
(* the balance lines LOB / ULOB / LLOB, a remark per zone, the strength of  *)
(* the three prakriti groups, their percentages and dominance order, saves  *)
(* two chart images, writes a PDF and removes the chart images.            *)
(*                                                                         *)
(* Numbers.  Zone values are Python floats (float(input()) on line 56, a   *)
(* float64 Area column on line 70).  A float is modelled as an integer      *)
(* count of quanta of 1/Scale, and every float operation rounds its exact   *)
(* result to Precision significant bits, ties to even, as IEEE-754 binary   *)
(* arithmetic does with 53 bits.  Dividing by 16 or by 2 is exact.  NaN is  *)
(* a separate value; every comparison with NaN is false.                    *)
(***************************************************************************)
EXTENDS Integers, Sequences, FiniteSets

(* ------------------------------ bounds -------------------------------- *)
\* zone values typed in or stored in the table are the integers 0..MaxVal
MaxVal == 3
\* this many zones (the first of DeviantOrder) may hold another value than the
\* rest, or have no row in the table; all other zones hold one common value
MaxDeviantZones == 2
\* significant bits of a float's mantissa (53 in CPython)
Precision == 4

(* --------------------------- module constants ------------------------- *)
zones ==
  << "N", "NNE", "NE", "ENE",
     "E", "ESE", "SE", "SSE",
     "S", "SSW", "SW", "WSW",
     "W", "WNW", "NW", "NNW" >>

ZoneSet == { zones[k] : k \in 1..Len(zones) }

\* dict keys of prakriti_map in insertion order
prakriti_keys == << "Fire", "Water", "Air" >>

prakriti_map ==
  [ Fire  |-> << "E", "ESE", "SE", "SSE", "S", "SSW" >>,
    Water |-> << "NNW", "N", "NNE", "NE", "ENE" >>,
    Air   |-> << "SW", "WSW", "W", "WNW", "NW" >> ]

(* ------------------------------ floats -------------------------------- *)
\* quanta per unit: LOB = sum/16 and (LOB + max)/2 stay whole numbers of quanta
Scale == Len(zones) * 2

\* float("nan"), and the fill value reindex gives a missing row
NaN == -1073741824

\* a name the script has not assigned yet
Unbound == -1073741823

IsNaN(x) == x = NaN

Abs(n) == IF n < 0 THEN -n ELSE n

RECURSIVE Pow2(_)
Pow2(k) == IF k = 0 THEN 1 ELSE 2 * Pow2(k - 1)

\* number of bits of n > 0
RECURSIVE BitLen(_)
BitLen(n) == IF n = 0 THEN 0 ELSE 1 + BitLen(n \div 2)

\* the float nearest to the exact value num/den >= 0 (in quanta), ties to even
RoundRatPos(num, den) ==
  LET fl == num \div den
      L  == BitLen(fl)
  IN  IF L <= Precision
        THEN fl          \* callers keep enough quanta for this case to be exact
        ELSE LET q  == Pow2(L - Precision)
                 m  == fl \div q
                 r2 == 2 * (num - m * q * den)   \* twice the remainder, times den
             IN  IF r2 < q * den THEN m * q
                 ELSE IF r2 > q * den THEN (m + 1) * q
                 ELSE IF m % 2 = 0 THEN m * q ELSE (m + 1) * q

\* the float nearest to the exact integer number of quanta n
Round(n) == IF n < 0 THEN -RoundRatPos(-n, 1) ELSE RoundRatPos(n, 1)

\* float + float, float - float
FAdd(a, b) == IF IsNaN(a) \/ IsNaN(b) THEN NaN ELSE Round(a + b)
FSub(a, b) == IF IsNaN(a) \/ IsNaN(b) THEN NaN ELSE Round(a - b)

\* float / 2^k: exact
FHalve(a, d) == IF IsNaN(a) THEN NaN ELSE a \div d

\* a < b and a > b on floats
FLt(a, b) == ~IsNaN(a) /\ ~IsNaN(b) /\ a < b
FGt(a, b) == ~IsNaN(a) /\ ~IsNaN(b) /\ a > b

(* --------------------------- Python builtins -------------------------- *)
\* sum() as CPython <= 3.11 computes it on floats: left to right, one rounding per addition
RECURSIVE SumNaive(_, _, _)
SumNaive(xs, k, s) ==
  IF k > Len(xs) THEN s ELSE SumNaive(xs, k + 1, FAdd(s, xs[k]))

\* sum() as CPython >= 3.12 computes it on floats: Neumaier's compensated summation
RECURSIVE SumNeumaier(_, _, _, _)
SumNeumaier(xs, k, s, c) ==
  IF k > Len(xs)
    THEN IF c # 0 /\ ~IsNaN(c) THEN FAdd(s, c) ELSE s
    ELSE LET x == xs[k]
             t == FAdd(s, x)
             d == IF ~IsNaN(s) /\ ~IsNaN(x) /\ Abs(s) >= Abs(x)
                    THEN FAdd(FSub(s, t), x)
                    ELSE FAdd(FSub(x, t), s)
         IN  SumNeumaier(xs, k + 1, t, FAdd(c, d))

\* sum(xs) for a sequence of floats; impl names the interpreter's algorithm
PySum(impl, xs) ==
  IF Len(xs) = 0 THEN 0
  ELSE IF impl = "naive" THEN SumNaive(xs, 2, xs[1])
  ELSE SumNeumaier(xs, 2, xs[1], 0)

\* max(xs): keeps the first item, replaces it by a later item that compares greater
RECURSIVE MaxFrom(_, _, _)
MaxFrom(xs, k, m) ==
  IF k > Len(xs) THEN m
  ELSE MaxFrom(xs, k + 1, IF FGt(xs[k], m) THEN xs[k] ELSE m)

PyMax(xs) == MaxFrom(xs, 2, xs[1])

\* min(xs): keeps the first item, replaces it by a later item that compares less
RECURSIVE MinFrom(_, _, _)
MinFrom(xs, k, m) ==
  IF k > Len(xs) THEN m
  ELSE MinFrom(xs, k + 1, IF FLt(xs[k], m) THEN xs[k] ELSE m)

PyMin(xs) == MinFrom(xs, 2, xs[1])

\* list reversal
Reverse(xs) == [ k \in 1..Len(xs) |-> xs[Len(xs) + 1 - k] ]

\* binary insertion of name x into the ascending run xs: x goes after every
\* item whose key is not greater than its own
RECURSIVE InsertAfterEqual(_, _, _)
InsertAfterEqual(xs, x, key) ==
  IF xs = << >> THEN << x >>
  ELSE IF key[x] < key[ xs[1] ] THEN << x >> \o xs
  ELSE << xs[1] >> \o InsertAfterEqual(Tail(xs), x, key)

\* list.sort() on a short list: binary insertion sort of the first n names of
\* xs by key, ascending and stable
RECURSIVE SortAscending(_, _, _)
SortAscending(xs, n, key) ==
  IF n = 0 THEN << >>
  ELSE InsertAfterEqual(SortAscending(xs, n - 1, key), xs[n], key)

\* the sort without the reversal of the list before sorting: groups of equal
\* strength come out in reverse declaration order
SortedReverseUnstable(xs, key) == Reverse(SortAscending(xs, Len(xs), key))

\* sorted(names, key=..., reverse=True): CPython reverses the list, sorts it
\* ascending and stably, and reverses the result
SortedReverse(xs, key) == Reverse(SortAscending(Reverse(xs), Len(xs), key))

\* "-".join(xs)
RECURSIVE Join(_)
Join(xs) ==
  IF xs = << >> THEN ""
  ELSE IF Len(xs) = 1 THEN xs[1]
  ELSE xs[1] \o "-" \o Join(Tail(xs))

\* all orders of the names in the sequence xs
Orders(xs) ==
  { p \in [ 1..Len(xs) -> { xs[k] : k \in 1..Len(xs) } ] :
      \A a, b \in 1..Len(xs) : a # b => p[a] # p[b] }

(* ------------------------------ inputs -------------------------------- *)
\* the floats a zone value can be: an integer 0..MaxVal, in quanta
Values == { v * Scale : v \in 0..MaxVal }

\* the zones in the order in which the model lets them deviate from the rest:
\* the first of the list, of each group's list, and the last of the list first
DeviantOrder ==
  << "N", "SW", "E", "NNW", "S", "ENE", "NW", "SSW",
     "NNE", "NE", "ESE", "SE", "SSE", "WSW", "W", "WNW" >>

DeviantZones == { DeviantOrder[k] : k \in 1..MaxDeviantZones }

\* the datasets the model enumerates: the zones outside DeviantZones hold one value
FewDeviants(d) ==
  \E b \in Values : \A z \in DOMAIN d \ DeviantZones : d[z] = b

\* names the user may give the report; the empty line selects the default
ReportNames == { "", "site_report" }

EmptyMap == [ z \in {} |-> 0 ]

(* ------------------------------- state -------------------------------- *)
VARIABLES
  pc,                  \* the statement the script is about to run
  raised,              \* "" or the exception (SystemExit for exit()) that ended it
  py_sum,              \* the interpreter's float summation: "naive" or "neumaier"
  choice,              \* line 46
  df,                  \* the table as read on line 64: zone -> Area, one row each
  zone_data,           \* lines 49, 56, 70
  areas,               \* line 78
  LOB, ULOB, LLOB,     \* lines 86-88
  remarks,             \* lines 96-104
  prakriti_strength,   \* lines 110-113
  total_prakriti,      \* line 116
  prakriti_percentage, \* lines 119-122
  prakriti_sorted,     \* lines 125-129, the names only
  final_prakriti,      \* line 132
  files,               \* names of the files the run has on disk
  pdf_outputs          \* how many times pdf.output has written a document

vars ==
  << pc, raised, py_sum, choice, df, zone_data, areas, LOB, ULOB, LLOB, remarks,
     prakriti_strength, total_prakriti, prakriti_percentage, prakriti_sorted,
     final_prakriti, files, pdf_outputs >>

inputVars == << choice, df, zone_data >>
balanceVars == << areas, LOB, ULOB, LLOB >>
prakritiVars ==
  << prakriti_strength, total_prakriti, prakriti_percentage, prakriti_sorted,
     final_prakriti >>
outputVars == << files, pdf_outputs >>

zone_chart == "zone_chart.png"
prakriti_chart == "prakriti_chart.png"

Init ==
  /\ pc = "choice"
  /\ raised = ""
  /\ py_sum \in { "naive", "neumaier" }
  /\ choice = ""
  /\ df = EmptyMap
  /\ zone_data = EmptyMap
  /\ areas = << >>
  /\ LOB = Unbound /\ ULOB = Unbound /\ LLOB = Unbound
  /\ remarks = EmptyMap
  /\ prakriti_strength = EmptyMap
  /\ total_prakriti = Unbound
  /\ prakriti_percentage = EmptyMap
  /\ prakriti_sorted = << >>
  /\ final_prakriti = ""
  /\ files = {}
  /\ pdf_outputs = 0

\* an uncaught exception, or exit(): the process ends
Terminate(exc) ==
  /\ pc' = "terminated"
  /\ raised' = exc

(* ------------------------------- input -------------------------------- *)
\* the selector without the exit() of line 74: an unknown selector is reported
\* and the script runs on
InputChoiceNoExit ==
  /\ pc = "choice"
  /\ \E c \in { "1", "2", "3" } :
       /\ choice' = c
       /\ pc' = IF c = "1" THEN "manual" ELSE IF c = "2" THEN "excel" ELSE "balance"
  /\ UNCHANGED << raised, py_sum, df, zone_data, balanceVars, remarks, prakritiVars,
                  outputVars >>

\* lines 46-74: the selector; "1" and "2" pick a source, anything else exits
InputChoice ==
  /\ pc = "choice"
  /\ \E c \in { "1", "2", "3" } :
       /\ choice' = c
       /\ IF c = "1" THEN pc' = "manual" /\ raised' = raised
          ELSE IF c = "2" THEN pc' = "excel" /\ raised' = raised
          ELSE Terminate("SystemExit")
  /\ UNCHANGED << py_sum, df, zone_data, balanceVars, remarks, prakritiVars, outputVars >>

\* the zone the manual loop asks for next
NextZone == zones[Cardinality(DOMAIN zone_data) + 1]

\* lines 55-56, one iteration: the typed text parses as the float v
ManualEntry ==
  /\ pc = "manual"
  /\ \E v \in Values \cup { NaN } :
       LET d == [ z \in DOMAIN zone_data \cup { NextZone } |->
                    IF z = NextZone THEN v ELSE zone_data[z] ]
       IN  /\ FewDeviants(d)
           /\ zone_data' = d
           /\ pc' = IF DOMAIN d = ZoneSet THEN "balance" ELSE "manual"
  /\ UNCHANGED << raised, py_sum, choice, df, balanceVars, remarks, prakritiVars, outputVars >>

\* line 56: float() raises ValueError on text that is not a number
ManualEntryFails ==
  /\ pc = "manual"
  /\ Terminate("ValueError")
  /\ UNCHANGED << py_sum, inputVars, balanceVars, remarks, prakritiVars, outputVars >>

\* df.set_index("Zone").reindex(zones)["Area"].to_dict(): every zone is a key,
\* a zone without a row gets NaN
Reindex(rows) == [ z \in ZoneSet |-> IF z \in DOMAIN rows THEN rows[z] ELSE NaN ]

\* lines 61-70: the table is read and re-keyed; the Area column is float64;
\* the rows of some of the DeviantZones may be missing
LoadExcel ==
  /\ pc = "excel"
  /\ \E b \in Values, M \in SUBSET DeviantZones :
         \E f \in [ DeviantZones \ M -> Values ] :
           LET rows == [ z \in ZoneSet \ M |-> IF z \in DeviantZones THEN f[z] ELSE b ]
           IN  /\ df' = rows
               /\ zone_data' = Reindex(rows)
  /\ pc' = "balance"
  /\ UNCHANGED << raised, py_sum, choice, balanceVars, remarks, prakritiVars, outputVars >>

\* line 64: read_excel raises when the file cannot be read
ReadExcelFails ==
  /\ pc = "excel"
  /\ Terminate("FileNotFoundError")
  /\ UNCHANGED << py_sum, inputVars, balanceVars, remarks, prakritiVars, outputVars >>

(* ---------------------------- calculations ---------------------------- *)
\* lines 78-88: areas, LOB, ULOB, LLOB
Balance ==
  /\ pc = "balance"
  /\ LET a == [ k \in 1..Len(zones) |-> zone_data[ zones[k] ] ]
         lob == FHalve(PySum(py_sum, a), Len(a))
     IN  /\ areas' = a
         /\ LOB' = lob
         /\ ULOB' = FHalve(FAdd(lob, PyMax(a)), 2)
         /\ LLOB' = FHalve(FAdd(lob, PyMin(a)), 2)
  /\ pc' = "remarks"
  /\ UNCHANGED << raised, py_sum, inputVars, remarks, prakritiVars, outputVars >>

\* the remark with the comparisons of lines 99 and 101 made inclusive
RemarkInclusive(v, ulob, llob) ==
  IF ~IsNaN(v) /\ ~IsNaN(ulob) /\ v >= ulob THEN "High"
  ELSE IF ~IsNaN(v) /\ ~IsNaN(llob) /\ v <= llob THEN "Low"
  ELSE "Balanced"

\* lines 99-104: the remark of a zone holding v
Remark(v, ulob, llob) ==
  IF FGt(v, ulob) THEN "High"
  ELSE IF FLt(v, llob) THEN "Low"
  ELSE "Balanced"

\* lines 96-104: the whole loop over zone_data.items()
Remarks ==
  /\ pc = "remarks"
  /\ remarks' = [ z \in DOMAIN zone_data |-> Remark(zone_data[z], ULOB, LLOB) ]
  /\ pc' = "strength"
  /\ UNCHANGED << raised, py_sum, inputVars, balanceVars, prakritiVars, outputVars >>

\* line 113: sum(zone_data[z] for z in zlist)
GroupStrength(zlist) ==
  PySum(py_sum, [ k \in 1..Len(zlist) |-> zone_data[ zlist[k] ] ])

\* lines 110-116: prakriti_strength and total_prakriti
Strength ==
  /\ pc = "strength"
  /\ LET st == [ p \in DOMAIN prakriti_map |-> GroupStrength(prakriti_map[p]) ]
     IN  /\ prakriti_strength' = st
         /\ total_prakriti' =
              PySum(py_sum, [ k \in 1..Len(prakriti_keys) |-> st[ prakriti_keys[k] ] ])
  /\ pc' = "percentage"
  /\ UNCHANGED << raised, py_sum, inputVars, balanceVars, remarks, prakriti_percentage,
                  prakriti_sorted, final_prakriti, outputVars >>

\* percentages are kept in quanta of 1/PctQuanta, fine enough for a quotient
\* of two strengths to keep Precision bits
PctQuanta == Pow2(16)

\* line 120: (v / total) * 100 on floats, total not zero; two roundings
Percent(v, total) ==
  IF IsNaN(v) \/ IsNaN(total) THEN NaN
  ELSE Round(RoundRatPos(v * PctQuanta, total) * 100)

\* the percentage step with a division that yields NaN for a zero total
\* instead of raising
PercentageNoRaise ==
  /\ pc = "percentage"
  /\ prakriti_percentage' =
       [ p \in DOMAIN prakriti_strength |->
           IF total_prakriti = 0 THEN NaN
           ELSE Percent(prakriti_strength[p], total_prakriti) ]
  /\ pc' = "rank"
  /\ UNCHANGED << raised, py_sum, inputVars, balanceVars, remarks, prakriti_strength,
                  total_prakriti, prakriti_sorted, final_prakriti, outputVars >>

\* lines 119-122: float division raises ZeroDivisionError when total_prakriti is 0
Percentage ==
  /\ pc = "percentage"
  /\ IF total_prakriti = 0
       THEN /\ Terminate("ZeroDivisionError")
            /\ UNCHANGED prakriti_percentage
       ELSE /\ prakriti_percentage' =
                 [ p \in DOMAIN prakriti_strength |->
                     Percent(prakriti_strength[p], total_prakriti) ]
            /\ pc' = "rank"
            /\ UNCHANGED raised
  /\ UNCHANGED << py_sum, inputVars, balanceVars, remarks, prakriti_strength,
                  total_prakriti, prakriti_sorted, final_prakriti, outputVars >>

\* lines 125-129: the group names by strength, strongest first.  Strengths
\* that are NaN compare false with everything, so the order list.sort leaves
\* is whatever its comparisons happen to produce: any order.
Sorted(strength) ==
  IF \E p \in DOMAIN strength : IsNaN(strength[p])
    THEN Orders(prakriti_keys)
    ELSE { SortedReverse(prakriti_keys, strength) }

\* lines 125-132: prakriti_sorted and final_prakriti
Rank ==
  /\ pc = "rank"
  /\ \E order \in Sorted(prakriti_strength) :
       /\ prakriti_sorted' = order
       /\ final_prakriti' = Join(order)
  /\ pc' = "zone_chart"
  /\ UNCHANGED << raised, py_sum, inputVars, balanceVars, remarks, prakriti_strength,
                  total_prakriti, prakriti_percentage, outputVars >>

(* ------------------------------- report ------------------------------- *)
\* lines 136-173: the zone chart is drawn and saved
SaveZoneChart ==
  /\ pc = "zone_chart"
  /\ files' = files \cup { zone_chart }
  /\ pc' = "prakriti_chart"
  /\ UNCHANGED << raised, py_sum, inputVars, balanceVars, remarks, prakritiVars, pdf_outputs >>

\* lines 177-203: the prakriti chart is drawn and saved
SavePrakritiChart ==
  /\ pc = "prakriti_chart"
  /\ files' = files \cup { prakriti_chart }
  /\ pc' = "pdf"
  /\ UNCHANGED << raised, py_sum, inputVars, balanceVars, remarks, prakritiVars, pdf_outputs >>

\* lines 268-270: the name typed for the report, the default for an empty line
CustomName(line) == IF line = "" THEN "Mahavastu_Report" ELSE line

\* lines 207-272: the document is assembled from both chart images and written
PdfOutput ==
  /\ pc = "pdf"
  /\ { zone_chart, prakriti_chart } \subseteq files     \* pdf.image opens both
  /\ \E line \in ReportNames :
       files' = files \cup { CustomName(line) \o ".pdf" }
  /\ pdf_outputs' = pdf_outputs + 1
  /\ pc' = "remove_zone_chart"
  /\ UNCHANGED << raised, py_sum, inputVars, balanceVars, remarks, prakritiVars >>

\* line 272: pdf.output raises when the file cannot be written
PdfOutputFails ==
  /\ pc = "pdf"
  /\ Terminate("OSError")
  /\ UNCHANGED << py_sum, inputVars, balanceVars, remarks, prakritiVars, outputVars >>

\* line 275
RemoveZoneChart ==
  /\ pc = "remove_zone_chart"
  /\ files' = files \ { zone_chart }
  /\ pc' = "remove_prakriti_chart"
  /\ UNCHANGED << raised, py_sum, inputVars, balanceVars, remarks, prakritiVars, pdf_outputs >>

\* the end of the script without the os.remove of line 276
RemovePrakritiChartSkipped ==
  /\ pc = "remove_prakriti_chart"
  /\ pc' = "done"
  /\ UNCHANGED << raised, py_sum, inputVars, balanceVars, remarks, prakritiVars, outputVars >>

\* lines 276-278: the second removal, then the success message
RemovePrakritiChart ==
  /\ pc = "remove_prakriti_chart"
  /\ files' = files \ { prakriti_chart }
  /\ pc' = "done"
  /\ UNCHANGED << raised, py_sum, inputVars, balanceVars, remarks, prakritiVars, pdf_outputs >>

Next ==
  \/ InputChoice
  \/ ManualEntry
  \/ ManualEntryFails
  \/ LoadExcel
  \/ ReadExcelFails
  \/ Balance
  \/ Remarks
  \/ Strength
  \/ Percentage
  \/ Rank
  \/ SaveZoneChart
  \/ SavePrakritiChart
  \/ PdfOutput
  \/ PdfOutputFails
  \/ RemoveZoneChart
  \/ RemovePrakritiChart

Spec == Init /\ [][Next]_vars

(* ------------------------------ properties ---------------------------- *)
\* every value of the dataset d is a number
Numeric(d) == \A z \in DOMAIN d : ~IsNaN(d[z])

\* the dataset is complete and its 16 values are one and the same number
AllEqual == DOMAIN zone_data = ZoneSet /\ Numeric(zone_data)
            /\ \A y, z \in ZoneSet : zone_data[y] = zone_data[z]

\* nothing has been calculated and no file has been produced
NothingComputed ==
  /\ areas = << >>
  /\ LOB = Unbound /\ ULOB = Unbound /\ LLOB = Unbound
  /\ remarks = EmptyMap
  /\ prakriti_strength = EmptyMap /\ total_prakriti = Unbound
  /\ prakriti_percentage = EmptyMap /\ final_prakriti = ""
  /\ files = {} /\ pdf_outputs = 0

\* the table has been read and lacks the row of some zone
RowMissing == choice = "2" /\ df # EmptyMap /\ DOMAIN df # ZoneSet

\* C1: in table mode, a table without the row of some zone makes the loader
\* fail before any calculation: the run is over with an error, and no balance
\* line, remark, strength, chart or document exists.
C1_MissingZoneIsFatal ==
  RowMissing => ( pc = "terminated" /\ raised # "" /\ NothingComputed )

\* C2: when total_prakriti is zero the percentage step ends the run with a
\* division-by-zero error: no percentage, no chart, no document, and the run
\* takes no further step.
C2_ZeroTotalIsDivisionError ==
  ( total_prakriti = 0 /\ pc # "percentage" ) =>
    /\ pc = "terminated" /\ raised = "ZeroDivisionError"
    /\ prakriti_percentage = EmptyMap
    /\ files = {} /\ pdf_outputs = 0
    /\ ~ ENABLED Next

C2_Witness ==
  /\ total_prakriti = 0 /\ raised = "ZeroDivisionError"
  /\ \A z \in ZoneSet : zone_data[z] = 0

\* C3: for every dataset of 16 numbers, LLOB <= LOB <= ULOB.
C3_LinesOrdered ==
  ( LOB # Unbound /\ Numeric(zone_data) ) => ( LLOB <= LOB /\ LOB <= ULOB )

\* C4: every zone has exactly one remark; it is High exactly when the value is
\* greater than ULOB, Low exactly when it is less than LLOB, Balanced
\* otherwise; a value equal to ULOB or to LLOB is Balanced.
C4_RemarkPerZone ==
  remarks # EmptyMap =>
    /\ DOMAIN remarks = ZoneSet
    /\ \A z \in ZoneSet :
         LET v == zone_data[z] IN
         /\ remarks[z] \in { "High", "Balanced", "Low" }
         /\ remarks[z] = "High" <=> FGt(v, ULOB)
         /\ remarks[z] = "Low" <=> FLt(v, LLOB)
         /\ ( v = ULOB \/ v = LLOB ) => remarks[z] = "Balanced"

C4_Witness ==
  /\ remarks # EmptyMap /\ ~AllEqual /\ Numeric(zone_data)
  /\ \E z \in ZoneSet : remarks[z] = "High"
  /\ \E z \in ZoneSet : remarks[z] = "Low"
  /\ \E z \in ZoneSet : zone_data[z] = ULOB /\ remarks[z] = "Balanced"

\* the three zone lists partition the 16 zones
GroupsPartitionZones ==
  /\ \A z \in ZoneSet :
       Cardinality({ p \in DOMAIN prakriti_map :
                       \E k \in 1..Len(prakriti_map[p]) : prakriti_map[p][k] = z }) = 1
  /\ \A p \in DOMAIN prakriti_map :
       \A j, k \in 1..Len(prakriti_map[p]) :
         /\ prakriti_map[p][k] \in ZoneSet
         /\ j # k => prakriti_map[p][j] # prakriti_map[p][k]

\* C5: the three strengths add up to the sum of the 16 zone values, the three
\* zone lists being a partition of the 16 zones.
C5_StrengthsAddUp ==
  ( total_prakriti # Unbound /\ Numeric(zone_data) ) =>
    ( GroupsPartitionZones /\ total_prakriti = PySum(py_sum, areas) )

\* position of a group in prakriti_map
DeclarationIndex(p) == CHOOSE k \in 1..Len(prakriti_keys) : prakriti_keys[k] = p

\* C6: the label names each group once, strongest first, and groups of equal
\* strength keep their declaration order; with three equal strengths it is
\* "Fire-Water-Air".
C6_RankingStable ==
  prakriti_sorted # << >> =>
    /\ Len(prakriti_sorted) = Len(prakriti_keys)
    /\ \A p \in DOMAIN prakriti_map :
         Cardinality({ k \in 1..Len(prakriti_sorted) : prakriti_sorted[k] = p }) = 1
    /\ final_prakriti = Join(prakriti_sorted)
    /\ Numeric(prakriti_strength) =>
         /\ \A j, k \in 1..Len(prakriti_sorted) :
              j < k =>
                LET a == prakriti_sorted[j]
                    b == prakriti_sorted[k]
                IN  /\ prakriti_strength[a] >= prakriti_strength[b]
                    /\ prakriti_strength[a] = prakriti_strength[b]
                         => DeclarationIndex(a) < DeclarationIndex(b)
         /\ ( \A a, b \in DOMAIN prakriti_map :
                prakriti_strength[a] = prakriti_strength[b] )
              => final_prakriti = "Fire-Water-Air"

C6_Witness ==
  /\ final_prakriti = "Fire-Water-Air"
  /\ Numeric(prakriti_strength)
  /\ \A a, b \in DOMAIN prakriti_map : prakriti_strength[a] = prakriti_strength[b]

\* C7: when the 16 values are one number c, LLOB = LOB = ULOB = c and every
\* zone is Balanced.
C7_AllEqualAllBalanced ==
  ( remarks # EmptyMap /\ AllEqual ) =>
    /\ \A z \in ZoneSet : LLOB = zone_data[z] /\ LOB = zone_data[z] /\ ULOB = zone_data[z]
    /\ \A z \in ZoneSet : remarks[z] = "Balanced"

\* C8: a selector other than "1" or "2", an entry that is no number and an
\* unreadable table end the run at the input stage: no dataset, nothing
\* calculated, no chart, no document, and no further step (no retry).
C8_InputErrorsAreTerminal ==
  /\ choice \notin { "", "1", "2" } => ( pc = "terminated" /\ raised = "SystemExit" )
  /\ raised \in { "SystemExit", "ValueError", "FileNotFoundError" } =>
       /\ pc = "terminated"
       /\ DOMAIN zone_data # ZoneSet
       /\ NothingComputed
       /\ ~ ENABLED Next

C8_Witness ==
  /\ pc = "terminated" /\ raised = "ValueError"
  /\ Cardinality(DOMAIN zone_data) = 5

charts == { zone_chart, prakriti_chart }

\* C9: on the success path both chart images exist when the document is
\* written, the document is written once, a chart image is removed only after
\* that, and a finished run leaves the document and no chart image.
C9_ChartLifecycle ==
  /\ [] ( pc = "done" =>
            /\ pdf_outputs = 1
            /\ files \cap charts = {}
            /\ Cardinality(files) = 1 )
  /\ [][ pdf_outputs' # pdf_outputs =>
            /\ pdf_outputs = 0 /\ pdf_outputs' = 1
            /\ charts \subseteq files /\ charts \subseteq files'
            /\ Cardinality(files' \ files) = 1 ]_vars
  /\ [][ ( \E c \in charts : c \in files /\ c \notin files' ) =>
            /\ pdf_outputs = 1
            /\ files \ charts # {} ]_vars

C9_Witness ==
  pc = "done" /\ files = { "Mahavastu_Report.pdf" } /\ pdf_outputs = 1

\* the greatest and the least of the 16 values
MaxValue == CHOOSE v \in { zone_data[z] : z \in ZoneSet } :
              \A z \in ZoneSet : zone_data[z] <= v
MinValue == CHOOSE v \in { zone_data[z] : z \in ZoneSet } :
              \A z \in ZoneSet : zone_data[z] >= v

\* C10: when the 16 numbers are not all equal, every zone holding the greatest
\* is High and every zone holding the least is Low; so all zones are Balanced
\* exactly when all values are equal.
C10_ExtremesAreMarked ==
  ( remarks # EmptyMap /\ Numeric(zone_data) ) =>
    /\ ~AllEqual =>
         \A z \in ZoneSet :
           /\ zone_data[z] = MaxValue => remarks[z] = "High"
           /\ zone_data[z] = MinValue => remarks[z] = "Low"
    /\ ( \A z \in ZoneSet : remarks[z] = "Balanced" ) <=> AllEqual

=============================================================================
